---- MODULE Spec2Model ----
(***************************************************************************)
(* Model of the HPK process launcher (package process) and of the start-up *)
(* sequence of the hpk-kubelet root command (package root).                *)
(*                                                                         *)
(* Strings that the code tokenizes are sequences of characters; an error   *)
(* value is the chain of its fmt.Errorf / errors.Wrap layers, outermost    *)
(* first, the empty chain being nil.                                       *)
(***************************************************************************)
EXTENDS Integers, Sequences, FiniteSets, TLC

\* ------------------------------------------------------------------ bounds
MaxEmit == 2
MaxCmdLen == 3

Bytes == {"x", "y"}
Chars == {"a", " "}

\* ------------------------------------------------------------ launcher state
VARIABLES
    GoEnviron,      \* var GoEnviron []string, the process-wide overlay
    op,             \* the exported function the caller entered
    cmdline,        \* ExecuteString's argument
    cmd,            \* the *exec.Cmd under construction / running
    pc,             \* position of the launcher: idle, built, waiting, returned
    ret,            \* what the entered function returned
    osAttempts,     \* process creations that reached the OS (fork/exec)
    launcherWaited, \* the launcher called cmd.Wait()
    procState,      \* the child process: none, running, exited
    procEnv,        \* the environment the child observes
    emitted,        \* bytes the child has written to its stdout/stderr
    exitStatus,     \* the child's wait status
    pipe,           \* bytes in the stdout/stderr pipe, not yet read
    readerClosed,   \* the parent's read end of the pipe is closed
    copier,         \* the goroutine copying the pipe into cmd.Stdout
    buffer,         \* the bytes.Buffer
    sink,           \* bytes accepted by the caller-supplied io.Writer
    inner,          \* what the *InDir function returned to its caller
    callerWait      \* result of the caller's own Wait on the async handle

\* --------------------------------------------------- root command state
VARIABLES
    c,              \* Opts
    rpc,            \* position of runRootCommand
    rret,           \* the error runRootCommand returned
    dnsEndpoint,    \* Subsets of the kube-dns Endpoints object
    done,           \* what runRootCommand has carried out so far
    readyClosed,    \* the channel podController.Ready() is closed
    parentDone,     \* the context given to runRootCommand is cancelled
    timerArmed,     \* waitFor's context.WithTimeout is live
    ctxErr,         \* Err() of waitFor's context
    chosen,         \* the case the select in waitFor proceeds with
    doneFirst,      \* history: the context was done while ready was open
    openAtDecision  \* history: ready was open when the select was decided

launcherVars == <<GoEnviron, op, cmdline, cmd, pc, ret, osAttempts, launcherWaited,
                  procState, procEnv, emitted, exitStatus, pipe, readerClosed,
                  copier, buffer, sink, inner, callerWait>>
rootVars == <<c, rpc, rret, dnsEndpoint, done, readyClosed, parentDone, timerArmed,
              ctxErr, chosen, doneFirst, openAtDecision>>
vars == <<launcherVars, rootVars>>

\* ------------------------------------------------------------ error values
Nil == <<>>

Layer(msg, output) == [msg |-> msg, output |-> output]

\* fmt.Errorf / errors.New of a message with no wrapped error
NewError(msg) == <<Layer(msg, <<>>)>>

\* fmt.Errorf(format, err, output) with one %w
Errorf(format, err, output) == <<Layer(format, output)>> \o err

Msgs(err) == {err[i].msg : i \in 1..Len(err)}

\* ------------------------------------------------------------ exec.Cmd
\* os.Environ(): the environment this program inherited
osEnviron == <<"PATH=/bin", "MY_VAR=inherited">>

Overlays == {<<>>, <<"MY_VAR=some_value">>}

\* The function whose body runs the command for each exported entry point.
Impl(o) ==
    CASE o \in {"Execute", "ExecuteInDir", "ExecuteString"} -> "ExecuteInDir"
      [] o = "LoggedExecuteInDir" -> "LoggedExecuteInDir"
      [] o \in {"ExecuteAsync", "ExecuteAsyncInDir"} -> "ExecuteAsyncInDir"

\* cmd.Env as the function leaves it: only ExecuteInDir assigns it.
CmdEnv(impl) ==
    IF impl = "ExecuteInDir"
    THEN [set |-> TRUE, env |-> osEnviron \o GoEnviron]
    ELSE [set |-> FALSE, env |-> <<>>]

\* cmd.Stdout = cmd.Stderr: the writers one Write of child output reaches, in
\* order. ExecuteInDir: the buffer. LoggedExecuteInDir: io.MultiWriter(buffer,
\* writer). ExecuteAsyncInDir: nil, the child writes to the null device.
WriterTargets_NoSink(impl) ==
    IF impl = "ExecuteAsyncInDir" THEN <<>> ELSE <<"buffer">>

WriterTargets_SinkFirst(impl) ==
    CASE impl = "ExecuteInDir" -> <<"buffer">>
      [] impl = "LoggedExecuteInDir" -> <<"sink", "buffer">>
      [] impl = "ExecuteAsyncInDir" -> <<>>

WriterTargets(impl) ==
    CASE impl = "ExecuteInDir" -> <<"buffer">>
      [] impl = "LoggedExecuteInDir" -> <<"buffer", "sink">>
      [] impl = "ExecuteAsyncInDir" -> <<>>

\* exec.Command(command, arguments...) followed by the function's assignments
\* to cmd.Dir, cmd.Env, cmd.Stdout and cmd.Stderr.
Command(impl, dir, command, arguments) ==
    [Path |-> command,
     Args |-> <<command>> \o arguments,
     Dir |-> dir,
     EnvSet |-> CmdEnv(impl).set,
     Env |-> CmdEnv(impl).env,
     Stdout |-> WriterTargets(impl)]

\* os/exec: a nil cmd.Env means the child gets the current process's environment.
EffectiveEnv(cm) == IF cm.EnvSet THEN cm.Env ELSE osEnviron

\* What cmd.Start() can answer. A command with an empty name is always
\* rejected, by os/exec itself ("exec: no command") or by the OS, depending on
\* the Go release the program is built with.
StartOutcomes(cm) ==
    IF cm.Path = <<>>
    THEN {[ok |-> FALSE, err |-> "exec: no command", viaOS |-> FALSE],
          [ok |-> FALSE, err |-> "fork/exec: no such file or directory", viaOS |-> TRUE]}
    ELSE {[ok |-> TRUE, err |-> "", viaOS |-> TRUE],
          [ok |-> FALSE, err |-> "executable file not found in $PATH", viaOS |-> FALSE],
          [ok |-> FALSE, err |-> "fork/exec: permission denied", viaOS |-> TRUE]}
         \cup (IF cm.Dir # ""
               THEN {[ok |-> FALSE, err |-> "chdir: no such file or directory", viaOS |-> TRUE]}
               ELSE {})

ExitStatuses == {"exit status 0", "exit status 1", "signal: killed"}

\* cmd.Wait(): an *ExitError unless the child exited 0, else the first error
\* of the copying goroutine.
CmdWait(status, copyErr) ==
    IF status # "exit status 0" THEN NewError(status) ELSE copyErr

\* ------------------------------------------------------------ results
Result(out, err, handle) == [out |-> out, err |-> err, handle |-> handle]

NoResult == Result(<<>>, Nil, FALSE)

\* The return statement after a failed cmd.Start().
StartFailure(impl, oserr, buf) ==
    IF impl = "ExecuteAsyncInDir"
    THEN Result(<<>>, Errorf("process error: %w", NewError(oserr), <<>>), TRUE)
    ELSE Result(buf, Errorf("could not start process: %w", NewError(oserr), <<>>), FALSE)

\* Whether the function calls cmd.Wait() before it returns.
LauncherWaits_Always(impl) == TRUE

LauncherWaits(impl) == impl \in {"ExecuteInDir", "LoggedExecuteInDir"}

\* The return statements after cmd.Wait() (after cmd.Start() for the async one).
WaitResult_ErrorDropped(impl, werr, buf) == Result(buf, Nil, FALSE)

WaitResult(impl, werr, buf) ==
    CASE impl = "ExecuteInDir" ->
            IF werr # Nil
            THEN Result(buf, Errorf("process error: %w\noutput: %s", werr, buf), FALSE)
            ELSE Result(buf, Nil, FALSE)
      [] impl = "LoggedExecuteInDir" ->
            IF werr # Nil
            THEN Result(buf, Errorf("process error: %w", werr, <<>>), FALSE)
            ELSE Result(buf, Nil, FALSE)
      [] impl = "ExecuteAsyncInDir" -> Result(<<>>, Nil, TRUE)

\* ------------------------------------------------------------ ExecuteString
RECURSIVE FirstSpace(_, _)
FirstSpace(s, i) ==
    IF i > Len(s) THEN 0 ELSE IF s[i] = " " THEN i ELSE FirstSpace(s, i + 1)

\* strings.Split(s, " ")
RECURSIVE Split_DropEmpty(_)
Split_DropEmpty(s) ==
    LET i == FirstSpace(s, 1) IN
    IF i = 0 THEN (IF s = <<>> THEN <<>> ELSE <<s>>)
    ELSE (IF i = 1 THEN <<>> ELSE <<SubSeq(s, 1, i - 1)>>)
         \o Split_DropEmpty(SubSeq(s, i + 1, Len(s)))

RECURSIVE Split(_)
Split(s) ==
    LET i == FirstSpace(s, 1) IN
    IF i = 0 THEN <<s>>
    ELSE <<SubSeq(s, 1, i - 1)>> \o Split(SubSeq(s, i + 1, Len(s)))

\* The tail of ExecuteString: a failure of Execute is wrapped once more.
ExecuteStringResult(r) ==
    IF r.err # Nil
    THEN [r EXCEPT !.err = Errorf("error: %w, output: %s", r.err, r.out)]
    ELSE r

Return(o, r) == IF o = "ExecuteString" THEN ExecuteStringResult(r) ELSE r

\* ------------------------------------------------------------ inputs
RECURSIVE StringsUpTo(_)
StringsUpTo(n) ==
    IF n = 0 THEN {<<>>}
    ELSE LET shorter == StringsUpTo(n - 1) IN
         shorter \cup {Append(s, ch) : s \in shorter, ch \in Chars}

CommandLines == StringsUpTo(MaxCmdLen)
Programs == {<<>>, <<"a">>}
ArgLists == {<<>>, << <<"a">> >>}
Dirs == {"", "d"}

NoCmd == [Path |-> <<>>, Args |-> <<>>, Dir |-> "", EnvSet |-> FALSE, Env |-> <<>>,
          Stdout |-> <<>>]
CopierOff == [pc |-> "off", chunk |-> <<>>, idx |-> 0, err |-> Nil]

NoOpts == [PodSyncWorkers |-> 0, StartupTimeout |-> 0, DisableTaint |-> TRUE,
           TaintEffect |-> ""]

rootFresh ==
    /\ rret = Nil
    /\ dnsEndpoint = <<>>
    /\ done = {}
    /\ readyClosed = FALSE
    /\ parentDone = FALSE
    /\ timerArmed = FALSE
    /\ ctxErr = "nil"
    /\ chosen = "none"
    /\ doneFirst = FALSE
    /\ openAtDecision = FALSE

rootIdle ==
    /\ c = NoOpts
    /\ rpc = "off"
    /\ rootFresh

launcherIdle ==
    /\ op = "none"
    /\ cmdline = <<>>
    /\ cmd = NoCmd
    /\ pc = "idle"
    /\ ret = NoResult
    /\ inner = NoResult
    /\ osAttempts = 0
    /\ launcherWaited = FALSE
    /\ procState = "none"
    /\ procEnv = <<>>
    /\ emitted = <<>>
    /\ exitStatus = "none"
    /\ pipe = <<>>
    /\ readerClosed = FALSE
    /\ copier = CopierOff
    /\ buffer = <<>>
    /\ sink = <<>>
    /\ callerWait = "none"

Init ==
    /\ GoEnviron \in Overlays
    /\ launcherIdle
    /\ rootIdle

\* ------------------------------------------------------------ the launcher
\* Entry into o: everything up to the call of cmd.Start().
Enter(o, dir, command, arguments, line) ==
    /\ pc = "idle"
    /\ op' = o
    /\ cmdline' = line
    /\ cmd' = Command(Impl(o), dir, command, arguments)
    /\ pc' = "built"
    /\ UNCHANGED <<GoEnviron, ret, inner, osAttempts, launcherWaited, procState, procEnv,
                   emitted, exitStatus, pipe, readerClosed, copier, buffer, sink,
                   callerWait>>
    /\ UNCHANGED rootVars

Execute ==
    \E command \in Programs, arguments \in ArgLists :
        Enter("Execute", "", command, arguments, <<>>)

ExecuteInDir ==
    \E dir \in Dirs, command \in Programs, arguments \in ArgLists :
        Enter("ExecuteInDir", dir, command, arguments, <<>>)

LoggedExecuteInDir ==
    \E dir \in Dirs, command \in Programs, arguments \in ArgLists :
        Enter("LoggedExecuteInDir", dir, command, arguments, <<>>)

ExecuteAsync ==
    \E command \in Programs, arguments \in ArgLists :
        Enter("ExecuteAsync", "", command, arguments, <<>>)

ExecuteAsyncInDir ==
    \E dir \in Dirs, command \in Programs, arguments \in ArgLists :
        Enter("ExecuteAsyncInDir", dir, command, arguments, <<>>)

ExecuteString ==
    \E command \in CommandLines :
        LET parts == Split(command) IN
        IF Len(parts) = 1 THEN Enter("ExecuteString", "", parts[1], <<>>, command)
        ELSE IF Len(parts) > 1
        THEN Enter("ExecuteString", "", parts[1], Tail(parts), command)
        ELSE /\ pc = "idle"
             /\ op' = "ExecuteString"
             /\ cmdline' = command
             /\ pc' = "returned"
             /\ ret' = Result(<<>>, NewError("invalid command to run '%s'"), FALSE)
             /\ UNCHANGED <<GoEnviron, cmd, inner, osAttempts, launcherWaited, procState,
                            procEnv, emitted, exitStatus, pipe, readerClosed, copier,
                            buffer, sink, callerWait>>
             /\ UNCHANGED rootVars

\* cmd.Start() fails: the function returns at once.
StartFails ==
    /\ pc = "built"
    /\ \E o \in StartOutcomes(cmd) :
        /\ ~o.ok
        /\ osAttempts' = osAttempts + (IF o.viaOS THEN 1 ELSE 0)
        /\ inner' = StartFailure(Impl(op), o.err, buffer)
        /\ ret' = Return(op, inner')
    /\ pc' = "returned"
    /\ UNCHANGED <<GoEnviron, op, cmdline, cmd, launcherWaited, procState, procEnv, emitted,
                   exitStatus, pipe, readerClosed, copier, buffer, sink, callerWait>>
    /\ UNCHANGED rootVars

\* cmd.Start() succeeds: the child runs; the function goes on to cmd.Wait(),
\* or returns the handle.
StartSucceeds ==
    /\ pc = "built"
    /\ \E o \in StartOutcomes(cmd) :
        /\ o.ok
        /\ osAttempts' = osAttempts + 1
    /\ procState' = "running"
    /\ procEnv' = EffectiveEnv(cmd)
    /\ copier' = IF cmd.Stdout # <<>> THEN [CopierOff EXCEPT !.pc = "read"] ELSE CopierOff
    /\ IF LauncherWaits(Impl(op))
       THEN /\ pc' = "waiting"
            /\ UNCHANGED <<inner, ret>>
       ELSE /\ pc' = "returned"
            /\ inner' = WaitResult(Impl(op), Nil, buffer)
            /\ ret' = Return(op, inner')
    /\ UNCHANGED <<GoEnviron, op, cmdline, cmd, launcherWaited, emitted, exitStatus, pipe,
                   readerClosed, buffer, sink, callerWait>>
    /\ UNCHANGED rootVars

\* The child writes one byte to its stdout or stderr.
ProcessEmit ==
    /\ procState = "running"
    /\ Len(emitted) < MaxEmit
    /\ ~readerClosed
    /\ \E b \in Bytes :
        /\ emitted' = Append(emitted, b)
        /\ pipe' = IF cmd.Stdout # <<>> THEN Append(pipe, b) ELSE pipe
    /\ UNCHANGED <<GoEnviron, op, cmdline, cmd, pc, ret, inner, osAttempts, launcherWaited,
                   procState, procEnv, exitStatus, readerClosed, copier, buffer, sink,
                   callerWait>>
    /\ UNCHANGED rootVars

\* The child exits or is killed.
ProcessExit ==
    /\ procState = "running"
    /\ procState' = "exited"
    /\ exitStatus' \in ExitStatuses
    /\ UNCHANGED <<GoEnviron, op, cmdline, cmd, pc, ret, inner, osAttempts, launcherWaited,
                   procEnv, emitted, pipe, readerClosed, copier, buffer, sink, callerWait>>
    /\ UNCHANGED rootVars

\* io.Copy in the goroutine cmd.Start() spawned: one Read of the pipe.
CopyRead ==
    /\ copier.pc = "read"
    /\ pipe # <<>>
    /\ copier' = [copier EXCEPT !.pc = "write", !.chunk = pipe, !.idx = 1]
    /\ pipe' = <<>>
    /\ UNCHANGED <<GoEnviron, op, cmdline, cmd, pc, ret, inner, osAttempts, launcherWaited,
                   procState, procEnv, emitted, exitStatus, readerClosed, buffer, sink,
                   callerWait>>
    /\ UNCHANGED rootVars

\* The Read meets end of file: every write end is closed and the pipe is empty.
CopyEOF ==
    /\ copier.pc = "read"
    /\ pipe = <<>>
    /\ procState = "exited"
    /\ copier' = [copier EXCEPT !.pc = "done"]
    /\ readerClosed' = TRUE
    /\ UNCHANGED <<GoEnviron, op, cmdline, cmd, pc, ret, inner, osAttempts, launcherWaited,
                   procState, procEnv, emitted, exitStatus, pipe, buffer, sink, callerWait>>
    /\ UNCHANGED rootVars

CopierNext == IF copier.idx = Len(cmd.Stdout)
              THEN [copier EXCEPT !.pc = "read", !.chunk = <<>>, !.idx = 0]
              ELSE [copier EXCEPT !.idx = copier.idx + 1]

\* The Write of the chunk reaches the bytes.Buffer, which takes all of it.
WriteBuffer ==
    /\ copier.pc = "write"
    /\ cmd.Stdout[copier.idx] = "buffer"
    /\ buffer' = buffer \o copier.chunk
    /\ copier' = CopierNext
    /\ UNCHANGED <<GoEnviron, op, cmdline, cmd, pc, ret, inner, osAttempts, launcherWaited,
                   procState, procEnv, emitted, exitStatus, pipe, readerClosed, sink,
                   callerWait>>
    /\ UNCHANGED rootVars

\* The Write of the chunk reaches the caller's writer, which takes n bytes of
\* it and answers an error or none. io.MultiWriter stops at an error and at a
\* short write, io.Copy ends with it and the goroutine closes the pipe.
WriteSink ==
    /\ copier.pc = "write"
    /\ cmd.Stdout[copier.idx] = "sink"
    /\ \E n \in 0..Len(copier.chunk), failed \in BOOLEAN :
        /\ sink' = sink \o SubSeq(copier.chunk, 1, n)
        /\ IF failed
           THEN /\ copier' = [copier EXCEPT !.pc = "done", !.err = NewError("sink write failed")]
                /\ readerClosed' = TRUE
           ELSE IF n < Len(copier.chunk)
           THEN /\ copier' = [copier EXCEPT !.pc = "done", !.err = NewError("short write")]
                /\ readerClosed' = TRUE
           ELSE /\ copier' = CopierNext
                /\ UNCHANGED readerClosed
    /\ UNCHANGED <<GoEnviron, op, cmdline, cmd, pc, ret, inner, osAttempts, launcherWaited,
                   procState, procEnv, emitted, exitStatus, pipe, buffer, callerWait>>
    /\ UNCHANGED rootVars

\* cmd.Wait() returns, after the child's exit and the end of the copying
\* goroutine, and the function returns.
Wait ==
    /\ pc = "waiting"
    /\ procState = "exited"
    /\ copier.pc \in {"off", "done"}
    /\ launcherWaited' = TRUE
    /\ inner' = WaitResult(Impl(op), CmdWait(exitStatus, copier.err), buffer)
    /\ ret' = Return(op, inner')
    /\ pc' = "returned"
    /\ UNCHANGED <<GoEnviron, op, cmdline, cmd, osAttempts, procState, procEnv, emitted,
                   exitStatus, pipe, readerClosed, copier, buffer, sink, callerWait>>
    /\ UNCHANGED rootVars

\* The caller of ExecuteAsync waits on the handle it was given. A second
\* Wait on an exec.Cmd answers an error and no status.
CallerWait ==
    /\ pc = "returned"
    /\ ret.handle
    /\ ret.err = Nil
    /\ procState = "exited"
    /\ callerWait = "none"
    /\ callerWait' = IF launcherWaited THEN "exec: Wait was already called" ELSE exitStatus
    /\ UNCHANGED <<GoEnviron, op, cmdline, cmd, pc, ret, inner, osAttempts, launcherWaited,
                   procState, procEnv, emitted, exitStatus, pipe, readerClosed, copier,
                   buffer, sink>>
    /\ UNCHANGED rootVars

Next ==
    \/ Execute
    \/ ExecuteInDir
    \/ LoggedExecuteInDir
    \/ ExecuteAsync
    \/ ExecuteAsyncInDir
    \/ ExecuteString
    \/ StartFails
    \/ StartSucceeds
    \/ ProcessEmit
    \/ ProcessExit
    \/ CopyRead
    \/ CopyEOF
    \/ WriteBuffer
    \/ WriteSink
    \/ Wait
    \/ CallerWait

Spec == Init /\ [][Next]_vars

\* ------------------------------------------------------------ root command
OptsSet == [PodSyncWorkers : {0, 1}, StartupTimeout : {0, 1}, DisableTaint : BOOLEAN,
            TaintEffect : {"NoSchedule", "NoExecute", "PreferNoSchedule", "Sometimes"}]

EndpointSubsets ==
    {<<>>,
     <<[Addresses |-> <<>>]>>,
     <<[Addresses |-> <<"10.96.0.10">>]>>,
     <<[Addresses |-> <<>>], [Addresses |-> <<"10.96.0.10">>]>>,
     <<[Addresses |-> <<"10.96.0.10">>], [Addresses |-> <<>>]>>}

\* errors.Wrap / errors.Wrapf of github.com/pkg/errors: nil for a nil error.
Wrapf(err, message) == IF err = Nil THEN Nil ELSE Errorf(message, err, <<>>)

\* getTaint: the error it returns.
getTaint(o) ==
    IF o.TaintEffect \in {"NoSchedule", "NoExecute", "PreferNoSchedule"}
    THEN Nil
    ELSE NewError("taint effect %q is not supported")

InitRoot ==
    /\ GoEnviron = <<>>
    /\ launcherIdle
    /\ c \in OptsSet
    /\ rpc = "RunE"
    /\ rootFresh

RootReturn(err) ==
    /\ rpc' = "returned"
    /\ rret' = err

\* A call that either fails, and runRootCommand returns the error given, or
\* succeeds, and runRootCommand goes on to `next` having carried out `what`.
RootStep(at, next, what, failure) ==
    /\ rpc = at
    /\ \E ok \in BOOLEAN :
        IF ok
        THEN /\ rpc' = next
             /\ done' = done \cup what
             /\ UNCHANGED rret
        ELSE /\ RootReturn(failure)
             /\ UNCHANGED done
    /\ UNCHANGED <<c, dnsEndpoint, readyClosed, parentDone, timerArmed, ctxErr, chosen,
                   doneFirst, openAtDecision>>
    /\ UNCHANGED launcherVars

\* RunE of the cobra command (NewCommand).
RunE ==
    /\ rpc = "RunE"
    /\ IF c.PodSyncWorkers = 0
       THEN RootReturn(NewError("pod sync workers must be greater than 0"))
       ELSE /\ rpc' = "config"
            /\ UNCHANGED rret
    /\ UNCHANGED <<c, dnsEndpoint, done, readyClosed, parentDone, timerArmed, ctxErr,
                   chosen, doneFirst, openAtDecision>>
    /\ UNCHANGED launcherVars

GetConfig ==
    RootStep("config", "client", {},
             Wrapf(NewError("no kubeconfig"), "unable to get kubeconfig"))

NewForConfig ==
    RootStep("client", "rm", {},
             Wrapf(NewError("bad config"), "unable to start kubernetes client"))

\* NewResourceManager, then the informer factories are started.
NewResourceManager ==
    RootStep("rm", "dns", {"informers"},
             Wrapf(NewError("nil lister"), "could not create resource manager"))

\* Discover Kubernetes DNS server.
DiscoverDNS ==
    /\ rpc = "dns"
    /\ \E ok \in BOOLEAN, subsets \in EndpointSubsets :
        LET err == IF ok THEN Nil ELSE NewError("endpoints kube-dns not found") IN
        IF err # Nil
        THEN /\ RootReturn(Wrapf(err, "unable to discover dns server"))
             /\ UNCHANGED <<dnsEndpoint, done>>
        ELSE /\ dnsEndpoint' = subsets
             /\ done' = done \cup {"dns"}
             /\ IF Len(subsets) = 0
                THEN RootReturn(Wrapf(err, "empty dns subsets"))
                ELSE IF Len(subsets[1].Addresses) = 0
                THEN RootReturn(Wrapf(err, "empty dns addresses"))
                ELSE /\ rpc' = "provider"
                     /\ UNCHANGED rret
    /\ UNCHANGED <<c, readyClosed, parentDone, timerArmed, ctxErr, chosen, doneFirst,
                   openAtDecision>>
    /\ UNCHANGED launcherVars

NewProvider ==
    RootStep("provider", "http", {"provider"}, NewError("provider init failed"))

setupHTTPServer ==
    RootStep("http", "node", {"http"},
             Wrapf(NewError("listen failed"), "unable to start http server"))

\* Register a new Virtual Node: the taint, CreateVirtualNode, NewNodeController.
RegisterVirtualNode ==
    /\ rpc = "node"
    /\ LET taintErr == IF ~c.DisableTaint THEN getTaint(c) ELSE Nil IN
       IF taintErr # Nil
       THEN /\ RootReturn(taintErr)
            /\ UNCHANGED done
       ELSE \E ok \in BOOLEAN :
            IF ok
            THEN /\ rpc' = "podctl"
                 /\ done' = done \cup {"node"}
                 /\ UNCHANGED rret
            ELSE /\ RootReturn(Wrapf(NewError("bad node"), "cannot start node controller"))
                 /\ done' = done \cup {"node"}
    /\ UNCHANGED <<c, dnsEndpoint, readyClosed, parentDone, timerArmed, ctxErr, chosen,
                   doneFirst, openAtDecision>>
    /\ UNCHANGED launcherVars

\* NewPodController, then go podController.Run(ctx, c.PodSyncWorkers).
NewPodController ==
    RootStep("podctl", "startup", {"podRun"},
             Wrapf(NewError("bad pod controller config"), "error setting up pod controller"))

\* if c.StartupTimeout > 0 { err = waitFor(...) }: into waitFor, where
\* context.WithTimeout derives a context from the one given.
StartupWait ==
    /\ rpc = "startup"
    /\ IF c.StartupTimeout > 0
       THEN /\ rpc' = "select"
            /\ timerArmed' = TRUE
            /\ ctxErr' = IF parentDone THEN "context canceled" ELSE "nil"
       ELSE /\ rpc' = "run"
            /\ UNCHANGED <<timerArmed, ctxErr>>
    /\ UNCHANGED <<c, rret, dnsEndpoint, done, readyClosed, parentDone, chosen, doneFirst,
                   openAtDecision>>
    /\ UNCHANGED launcherVars

\* The cases of waitFor's select that can proceed.
SelectCases(ready, err) ==
    (IF ready THEN {"ready"} ELSE {}) \cup (IF err # "nil" THEN {"done"} ELSE {})

\* What waitFor returns for the case its select proceeded with.
WaitForResult_AlwaysNil(case, err) == Nil

WaitForResult(case, err) ==
    IF case = "ready" THEN Nil ELSE Wrapf(NewError(err), "Error while starting up VK")

\* The select statement is reached: it proceeds with one of the cases that
\* can, chosen arbitrarily, or blocks.
Select ==
    /\ rpc = "select"
    /\ LET cases == SelectCases(readyClosed, ctxErr) IN
       IF cases = {}
       THEN /\ rpc' = "parked"
            /\ UNCHANGED <<chosen, openAtDecision>>
       ELSE /\ chosen' \in cases
            /\ openAtDecision' = ~readyClosed
            /\ rpc' = "woken"
    /\ UNCHANGED <<c, rret, dnsEndpoint, done, readyClosed, parentDone, timerArmed, ctxErr,
                   doneFirst>>
    /\ UNCHANGED launcherVars

\* A blocked select proceeds with the case whose channel is closed first.
Wake(case) ==
    IF rpc = "parked"
    THEN /\ rpc' = "woken"
         /\ chosen' = case
         /\ openAtDecision' = (case # "ready")
    ELSE UNCHANGED <<rpc, chosen, openAtDecision>>

Alive == rpc \notin {"off", "returned", "exit"}

\* The pod controller closes its ready channel.
ReadyClose ==
    /\ Alive
    /\ "podRun" \in done
    /\ ~readyClosed
    /\ readyClosed' = TRUE
    /\ Wake("ready")
    /\ UNCHANGED <<c, rret, dnsEndpoint, done, parentDone, timerArmed, ctxErr, doneFirst>>
    /\ UNCHANGED launcherVars

\* podController.Run fails with something other than context.Canceled: os.Exit(-1).
PodControllerFails ==
    /\ Alive
    /\ "podRun" \in done
    /\ rpc' = "exit"
    /\ UNCHANGED <<c, rret, dnsEndpoint, done, readyClosed, parentDone, timerArmed, ctxErr,
                   chosen, doneFirst, openAtDecision>>
    /\ UNCHANGED launcherVars

\* The context given to runRootCommand is cancelled.
Cancel ==
    /\ Alive
    /\ ~parentDone
    /\ parentDone' = TRUE
    /\ doneFirst' = (doneFirst \/ ~readyClosed)
    /\ IF timerArmed /\ ctxErr = "nil"
       THEN /\ ctxErr' = "context canceled"
            /\ Wake("done")
       ELSE UNCHANGED <<ctxErr, rpc, chosen, openAtDecision>>
    /\ UNCHANGED <<c, rret, dnsEndpoint, done, readyClosed, timerArmed>>
    /\ UNCHANGED launcherVars

\* The startup timeout elapses.
Timeout ==
    /\ Alive
    /\ timerArmed
    /\ ctxErr = "nil"
    /\ ctxErr' = "context deadline exceeded"
    /\ doneFirst' = (doneFirst \/ ~readyClosed)
    /\ Wake("done")
    /\ UNCHANGED <<c, rret, dnsEndpoint, done, readyClosed, parentDone, timerArmed>>
    /\ UNCHANGED launcherVars

\* waitFor returns (its deferred cancel runs) and runRootCommand acts on the
\* result.
WaitForReturn ==
    /\ rpc = "woken"
    /\ timerArmed' = FALSE
    /\ LET err == WaitForResult(chosen, ctxErr) IN
       IF err # Nil
       THEN RootReturn(err)
       ELSE /\ rpc' = "run"
            /\ UNCHANGED rret
    /\ UNCHANGED <<c, dnsEndpoint, done, readyClosed, parentDone, ctxErr, chosen, doneFirst,
                   openAtDecision>>
    /\ UNCHANGED launcherVars

\* return nodeController.Run(ctx): the call.
NodeControllerRun ==
    /\ rpc = "run"
    /\ rpc' = "nodeRun"
    /\ done' = done \cup {"nodeRun"}
    /\ UNCHANGED <<c, rret, dnsEndpoint, readyClosed, parentDone, timerArmed, ctxErr, chosen,
                   doneFirst, openAtDecision>>
    /\ UNCHANGED launcherVars

\* nodeController.Run returns once its context is cancelled.
NodeControllerReturns ==
    /\ rpc = "nodeRun"
    /\ parentDone
    /\ \E err \in {Nil, NewError("context canceled")} : RootReturn(err)
    /\ UNCHANGED <<c, dnsEndpoint, done, readyClosed, parentDone, timerArmed, ctxErr, chosen,
                   doneFirst, openAtDecision>>
    /\ UNCHANGED launcherVars

NextRoot ==
    \/ RunE
    \/ GetConfig
    \/ NewForConfig
    \/ NewResourceManager
    \/ DiscoverDNS
    \/ NewProvider
    \/ setupHTTPServer
    \/ RegisterVirtualNode
    \/ NewPodController
    \/ StartupWait
    \/ Select
    \/ ReadyClose
    \/ PodControllerFails
    \/ Cancel
    \/ Timeout
    \/ WaitForReturn
    \/ NodeControllerRun
    \/ NodeControllerReturns

\* A goroutine that can run does run: the select is evaluated and waitFor's
\* return is carried out.
SpecRoot ==
    /\ InitRoot
    /\ [][NextRoot]_vars
    /\ WF_vars(Select)
    /\ WF_vars(WaitForReturn)

\* ------------------------------------------------------------ properties
\* The failure classes, told apart as the code tells them apart: by the
\* message that wraps the OS error.
IsStartFailure(err) == err # Nil /\ Head(err).msg = "could not start process: %w"

IsExecutionFailure(err) ==
    err # Nil /\ Head(err).msg \in {"process error: %w\noutput: %s", "process error: %w"}

IsInvalidCommand(err) == err # Nil /\ Head(err).msg = "invalid command to run '%s'"

\* The class of an error, looked for through its wrappers as errors.Is does.
ClassesOf(err) ==
    Msgs(err) \cap {"could not start process: %w", "process error: %w\noutput: %s",
                    "process error: %w", "invalid command to run '%s'"}

IsPrefix(s, t) == Len(s) <= Len(t) /\ SubSeq(t, 1, Len(s)) = s

RECURSIVE Join(_)
Join(tokens) ==
    IF Len(tokens) = 0 THEN <<>>
    ELSE IF Len(tokens) = 1 THEN tokens[1]
    ELSE tokens[1] \o <<" ">> \o Join(Tail(tokens))

\* tokens are what command splits into on single spaces
SplitsInto(command, tokens) ==
    /\ Len(tokens) >= 1
    /\ Join(tokens) = command
    /\ \A i \in 1..Len(tokens) : \A j \in 1..Len(tokens[i]) : tokens[i][j] # " "

Returned(ops) == op \in ops /\ pc = "returned"

\* C1: a blocking Execute / ExecuteInDir call whose process started returns
\* exactly the bytes the process emitted, in order, whatever the exit status;
\* the error is nil exactly when the status is 0, and otherwise is the
\* execution failure wrapping the OS error.
C1_BlockingResult ==
    (Returned({"Execute", "ExecuteInDir"}) /\ procState # "none") =>
        /\ procState = "exited"
        /\ ret.out = emitted
        /\ (ret.err = Nil) <=> (exitStatus = "exit status 0")
        /\ exitStatus # "exit status 0" =>
            /\ IsExecutionFailure(ret.err)
            /\ Tail(ret.err) = NewError(exitStatus)

C1_Witness ==
    /\ Returned({"Execute"})
    /\ Len(emitted) >= 2
    /\ emitted[1] # emitted[2]
    /\ exitStatus = "signal: killed"
    /\ ret.out = emitted

\* C2: when process creation is rejected, every launcher operation fails
\* with the start failure wrapping the OS error, not with an execution
\* failure, and never waits on the process.
C2_StartFailure ==
    (Returned({"Execute", "ExecuteInDir", "LoggedExecuteInDir", "ExecuteAsync",
               "ExecuteAsyncInDir"}) /\ procState = "none") =>
        /\ IsStartFailure(ret.err)
        /\ ~IsExecutionFailure(ret.err)
        /\ Len(ret.err) = 2
        /\ ~launcherWaited

\* C3: every started process observes the inherited environment followed by
\* the overlay GoEnviron.
C3_Overlay == procState # "none" => procEnv = osEnviron \o GoEnviron

\* C4: ExecuteString of a command line with no program name (empty, or
\* beginning with a space) fails with InvalidCommand and no process start is
\* attempted on the OS.
C4_InvalidCommand ==
    (Returned({"ExecuteString"}) /\ (cmdline = <<>> \/ Head(cmdline) = " ")) =>
        /\ IsInvalidCommand(ret.err)
        /\ osAttempts = 0

C6_AsyncReturned ==
    /\ Returned({"ExecuteAsync", "ExecuteAsyncInDir"})
    /\ ret.err = Nil

\* C6: after a successful start ExecuteAsync / ExecuteAsyncInDir has returned
\* the handle without the launcher ever waiting on the process, the launcher
\* does nothing more, and the caller's later wait on the handle yields the
\* exit status of the process.
C6_Async ==
    /\ [](C6_AsyncReturned =>
            /\ ret.handle
            /\ ~launcherWaited
            /\ procState \in {"running", "exited"}
            /\ callerWait # "none" => (procState = "exited" /\ callerWait = exitStatus))
    /\ [][C6_AsyncReturned =>
            /\ UNCHANGED <<pc, ret, launcherWaited, cmd>>
            /\ procState = "exited" => UNCHANGED <<procState, exitStatus>>]_vars

C6_Witness ==
    /\ Returned({"ExecuteAsync"})
    /\ ret.err = Nil
    /\ procState = "running"
    /\ emitted # <<>>

\* C7 as stated: ExecuteString(s) runs the tokens of s and returns exactly
\* what Execute(t0, t1..tn) returned, output and error.
C7_SameResult ==
    Returned({"ExecuteString"}) =>
        /\ SplitsInto(cmdline, cmd.Args)
        /\ ret = inner

\* C7 amended: the same output, an error exactly when Execute failed, of the
\* same class, which is Execute's error wrapped once more with the output.
C7_SameResultWrapped ==
    Returned({"ExecuteString"}) =>
        /\ SplitsInto(cmdline, cmd.Args)
        /\ ret.out = inner.out
        /\ (ret.err = Nil) <=> (inner.err = Nil)
        /\ ret.err # Nil =>
            /\ Head(ret.err) = Layer("error: %w, output: %s", inner.out)
            /\ Tail(ret.err) = inner.err
            /\ ClassesOf(ret.err) = ClassesOf(inner.err)

C7_Witness ==
    /\ Returned({"ExecuteString"})
    /\ cmdline = <<"a", " ", "a">>
    /\ cmd.Args = << <<"a">>, <<"a">> >>
    /\ ret.err # Nil
    /\ ret.out # <<>>

\* C8: in LoggedExecuteInDir the bytes the sink accepted are at every moment
\* a prefix of the buffer's, the returned output is the buffer, and a failed
\* write to the sink makes the operation fail.
C8_SinkFailure ==
    op = "LoggedExecuteInDir" =>
        /\ IsPrefix(sink, buffer)
        /\ copier.err # Nil => (copier.pc = "done" /\ readerClosed)
        /\ pc = "returned" =>
            /\ ret.out = buffer
            /\ copier.err # Nil => ret.err # Nil

C8_Witness ==
    /\ Returned({"LoggedExecuteInDir"})
    /\ copier.err # Nil
    /\ exitStatus = "exit status 0"
    /\ Len(sink) < Len(buffer)
    /\ ret.err # Nil

\* ------------------------------------------------------------ root properties
InWaitFor == rpc \in {"select", "parked", "woken"}

\* waitFor has returned nil: runRootCommand is at or past nodeController.Run.
PastWaitFor == c.StartupTimeout > 0 /\ (rpc \in {"run", "nodeRun"} \/ "nodeRun" \in done)

C9_Safety ==
    /\ PastWaitFor => (readyClosed /\ chosen = "ready")
    /\ (chosen # "none" /\ openAtDecision) => chosen = "done"
    /\ (chosen = "done" /\ ~InWaitFor /\ rpc # "exit") =>
        /\ rpc = "returned"
        /\ rret # Nil
        /\ Head(rret).msg = "Error while starting up VK"
        /\ "nodeRun" \notin done

C10_EmptyDNS ==
    (rpc = "returned" /\ "dns" \in done
        /\ (Len(dnsEndpoint) = 0 \/ Len(dnsEndpoint[1].Addresses) = 0)) =>
        /\ rret # Nil
        /\ done \cap {"provider", "http", "node", "podRun", "nodeRun"} = {}

====
